---- MODULE Spec2Model ----
(***************************************************************************)
(* State-machine model of the Hamburg '84 lookbook app:                    *)
(*   src/App.tsx                 the App component: upload, the generation *)
(*                               run with two workers, regeneration,       *)
(*                               reset and the lookbook download           *)
(*   src/services/geminiService.ts  generatePimpImage, callGeminiWithRetry *)
(*                               and processGeminiResponse                 *)
(* One action is one macrotask of the JavaScript event loop: an event      *)
(* handler or a promise/timer callback together with every microtask       *)
(* continuation it triggers.                                               *)
(***************************************************************************)
EXTENDS Naturals, Integers, Sequences, FiniteSets, TLC

\* ------------------------------------------------------------------ bounds
NumArchetypes == 3      \* how many of the five archetypes the model carries
MaxUploads == 2         \* file selections over the whole behaviour
MaxRegenerations == 1   \* shake (regenerate) requests over the whole behaviour
MaxCalls == 3           \* generatePimpImage calls outstanding at a time
MaxImages == 6          \* images in the mapping given to createLookbookPage
MaxPages == 2           \* createLookbookPage results kept for one mapping

\* ------------------------------------------------------- program constants
concurrencyLimit == 2
maxRetries == 3
initialDelay == 1000
canvasWidth == 2480
canvasHeight == 3508
contentTopMargin == 550

Null == [null |-> TRUE]

\* The five archetype names (umlauts written without their dots).
AllArchetypes ==
    <<"Kiez-Konig", "Luden-Larry", "Gold-Zahn Gunther", "Disco Dieter", "Porsche-Paul">>

PIMP_ARCHETYPES == SubSeq(AllArchetypes, 1, NumArchetypes)

Range(s) == {s[i] : i \in 1..Len(s)}

Archetypes == Range(PIMP_ARCHETYPES)

\* The prompt table: archetype name -> prompt text.
PROMPTS == [p \in Range(AllArchetypes) |-> <<"Reimagine the person in this photo as", p>>]

\* Text is a sequence of fragments; includes() looks for one fragment.
Includes(text, fragment) == \E i \in 1..Len(text) : text[i] = fragment

RECURSIVE Pow(_, _)
Pow(base, n) == IF n = 0 THEN 1 ELSE base * Pow(base, n - 1)

\* ------------------------------------------------------------ environment
\* Files the user can select, and the data URL FileReader.readAsDataURL
\* yields for each: data:<type>/<subtype>;base64,<data>.
Files == {"mugshot1.png", "mugshot2.jpeg", "notes.txt"}

ReadAsDataURL(file) ==
    IF file = "mugshot1.png"
    THEN [type |-> "image", subtype |-> "png", data |-> "mugshot1"]
    ELSE IF file = "mugshot2.jpeg"
    THEN [type |-> "image", subtype |-> "jpeg", data |-> "mugshot2"]
    ELSE [type |-> "text", subtype |-> "plain", data |-> "notes"]

\* Subtypes that consist of word characters only (the regexp's \w+).
WordSubtypes == {"png", "jpeg", "webp", "plain"}

\* Messages of the errors ai.models.generateContent can reject with.
RemoteErrors == {<<"got status: 500", "\"code\":500">>,
                 <<"INTERNAL">>,
                 <<"PERMISSION_DENIED">>}

\* Responses generateContent can resolve with for a request: one that
\* carries an image part and one that carries only text.
RemoteResponses(call) ==
    {[inlineData |-> [mimeType |-> "image/png",
                      data |-> [from |-> call.imagePart.data, prompt |-> call.textPart]],
      text |-> <<>>],
     [inlineData |-> Null, text |-> <<"I can't create that image">>]}

\* ------------------------------------------------------------------ state
VARIABLES
    uploadedImage,    \* useState: the data URL of the mugshot, or Null
    generatedImages,  \* useState: archetype name -> GeneratedImage
    isLoading,        \* useState
    isDownloading,    \* useState
    appState,         \* useState: idle, image-uploaded, generating, results-shown
    readers,          \* FileReaders whose onloadend has not fired: id -> file
    runs,             \* the handleGenerateClick invocations, in start order
    calls,            \* the outstanding generatePimpImage calls
    lookbook,         \* the pending createLookbookPage call, or Null
    alertMsg,         \* the text of the open alert() dialog, or <<>>
    justSettled,      \* the generatePimpImage call the last step settled, or Null
    nUploads,         \* file selections so far
    nRegenerations,   \* regeneration requests so far
    pageInput,        \* the imageData a direct caller of createLookbookPage holds
    pages             \* what createLookbookPage has returned to that caller

vars == <<uploadedImage, generatedImages, isLoading, isDownloading, appState,
          readers, runs, calls, lookbook, alertMsg, justSettled,
          nUploads, nRegenerations, pageInput, pages>>

\* The variables of a direct createLookbookPage caller; the App keeps no page.
composeVars == <<pageInput, pages>>

EmptyImages == [p \in {} |-> Null]

Init ==
    /\ uploadedImage = Null
    /\ generatedImages = EmptyImages
    /\ isLoading = FALSE
    /\ isDownloading = FALSE
    /\ appState = "idle"
    /\ readers = [i \in {} |-> ""]
    /\ runs = <<>>
    /\ calls = {}
    /\ lookbook = Null
    /\ alertMsg = <<>>
    /\ justSettled = Null
    /\ nUploads = 0
    /\ nRegenerations = 0
    /\ pageInput = <<>>
    /\ pages = {}

\* ------------------------------------------------------- geminiService.ts
\* The match of /^data:(image\/\w+);base64,(.*)$/ on a data URL.
MatchDataUrl(imageDataUrl) ==
    IF imageDataUrl.type = "image" /\ imageDataUrl.subtype \in WordSubtypes
    THEN [mimeType |-> <<imageDataUrl.type, imageDataUrl.subtype>>,
          base64Data |-> imageDataUrl.data]
    ELSE Null

\* Mutant: every failure counts as an internal error.
isInternalError_Any(errorMessage) == TRUE

isInternalError(errorMessage) ==
    Includes(errorMessage, "\"code\":500") \/ Includes(errorMessage, "INTERNAL")

\* Mutant: the exponent is the attempt number, not attempt - 1.
RetryDelay_FromAttempt(attempt) == initialDelay * Pow(2, attempt)

\* The backoff delay after the failure of attempt number `attempt`.
RetryDelay(attempt) == initialDelay * Pow(2, attempt - 1)

\* Mutant: the last retry is lost (attempt < maxRetries - 1).
callGeminiWithRetryCatch_OneRetry(call, errorMessage) ==
    LET failed == [call EXCEPT !.errors = Append(@, errorMessage)]
    IN IF (Includes(errorMessage, "\"code\":500") \/ Includes(errorMessage, "INTERNAL"))
          /\ call.attempt < maxRetries - 1
       THEN [rethrow |-> FALSE,
             call |-> [failed EXCEPT !.awaiting = "setTimeout",
                                     !.delays = Append(@, initialDelay * Pow(2, call.attempt - 1))]]
       ELSE [rethrow |-> TRUE, call |-> failed, error |-> errorMessage]

\* Mutant: after the last attempt the loop is left and the error thrown is
\* the one that follows the loop.
callGeminiWithRetryCatch_AfterLoop(call, errorMessage) ==
    LET failed == [call EXCEPT !.errors = Append(@, errorMessage)]
    IN IF Includes(errorMessage, "\"code\":500") \/ Includes(errorMessage, "INTERNAL")
       THEN IF call.attempt < maxRetries
            THEN [rethrow |-> FALSE,
                  call |-> [failed EXCEPT !.awaiting = "setTimeout",
                                          !.delays = Append(@, initialDelay * Pow(2, call.attempt - 1))]]
            ELSE [rethrow |-> TRUE, call |-> failed,
                  error |-> <<"Gemini API call failed after all retries.">>]
       ELSE [rethrow |-> TRUE, call |-> failed, error |-> errorMessage]

\* Mutant: the promise of the backoff timer is not awaited.
callGeminiWithRetryCatch_NotAwaited(call, errorMessage) ==
    LET failed == [call EXCEPT !.errors = Append(@, errorMessage)]
    IN IF (Includes(errorMessage, "\"code\":500") \/ Includes(errorMessage, "INTERNAL"))
          /\ call.attempt < maxRetries
       THEN [rethrow |-> FALSE,
             call |-> [failed EXCEPT !.attempt = @ + 1,
                                     !.delays = Append(@, initialDelay * Pow(2, call.attempt - 1))]]
       ELSE [rethrow |-> TRUE, call |-> failed, error |-> errorMessage]

\* The catch block of callGeminiWithRetry for the failure of the current
\* attempt: either the call goes to sleep for the backoff delay, or the
\* error is re-thrown (error).
callGeminiWithRetryCatch(call, errorMessage) ==
    LET failed == [call EXCEPT !.errors = Append(@, errorMessage)]
    IN IF isInternalError(errorMessage) /\ call.attempt < maxRetries
       THEN [rethrow |-> FALSE,
             call |-> [failed EXCEPT !.awaiting = "setTimeout",
                                     !.delays = Append(@, RetryDelay(call.attempt))]]
       ELSE [rethrow |-> TRUE, call |-> failed, error |-> errorMessage]

\* Mutant: the timer's callback does not resolve the promise the loop awaits.
callGeminiWithRetryContinue_NeverResolved(call) == call

\* The backoff timer fires: the loop goes to the next attempt.
callGeminiWithRetryContinue(call) ==
    [call EXCEPT !.attempt = @ + 1, !.awaiting = "generateContent"]

\* Mutant: the text of the response is left out of the error message.
processGeminiResponse_TextDropped(response) ==
    IF response.inlineData # Null
    THEN [ok |-> TRUE,
          url |-> [mimeType |-> response.inlineData.mimeType,
                   data |-> response.inlineData.data]]
    ELSE [ok |-> FALSE,
          message |-> <<"The AI model responded with text instead of an image:">>]

\* processGeminiResponse: the data URL of the image part, or an error.
processGeminiResponse(response) ==
    IF response.inlineData # Null
    THEN [ok |-> TRUE,
          url |-> [mimeType |-> response.inlineData.mimeType,
                   data |-> response.inlineData.data]]
    ELSE [ok |-> FALSE,
          message |-> <<"The AI model responded with text instead of an image:">>
                      \o (IF response.text # <<>> THEN response.text
                          ELSE <<"No text response received.">>)]

\* The catch block of generatePimpImage: wraps the message.
generatePimpImageCatch(errorMessage) ==
    [ok |-> FALSE,
     message |-> <<"The AI model failed to generate an image. Details:">> \o errorMessage]

\* Mutant: the request is sent without looking at the data URL or the table.
generatePimpImage_Unchecked(imageDataUrl, pimpName) ==
    [ok |-> TRUE, started |-> TRUE,
     call |-> [pimp |-> pimpName,
               image |-> imageDataUrl,
               imagePart |-> [mimeType |-> <<imageDataUrl.type, imageDataUrl.subtype>>,
                              data |-> imageDataUrl.data],
               textPart |-> IF pimpName \in DOMAIN PROMPTS THEN PROMPTS[pimpName] ELSE <<>>,
               attempt |-> 1,
               awaiting |-> "generateContent",
               errors |-> <<>>,
               delays |-> <<>>]]

\* generatePimpImage up to its first await: it throws for a malformed data
\* URL or an unknown archetype, else the first generateContent call is out.
generatePimpImage(imageDataUrl, pimpName) ==
    LET match == MatchDataUrl(imageDataUrl)
    IN IF match = Null
       THEN [ok |-> FALSE, started |-> FALSE,
             message |-> <<"Invalid image data URL format. Expected 'data:image/...;base64,...'">>]
       ELSE IF pimpName \notin DOMAIN PROMPTS
       THEN [ok |-> FALSE, started |-> FALSE,
             message |-> <<"No prompt found for archetype:", pimpName>>]
       ELSE [ok |-> TRUE, started |-> TRUE,
             call |-> [pimp |-> pimpName,
                       image |-> imageDataUrl,
                       imagePart |-> [mimeType |-> match.mimeType, data |-> match.base64Data],
                       textPart |-> PROMPTS[pimpName],
                       attempt |-> 1,
                       awaiting |-> "generateContent",
                       errors |-> <<>>,
                       delays |-> <<>>]]

\* generatePimpImage after callGeminiWithRetry resolved with a response.
generatePimpImageResolved(response) ==
    LET r == processGeminiResponse(response)
    IN IF r.ok THEN r ELSE generatePimpImageCatch(r.message)

\* ---------------------------------------------------------------- App.tsx
\* Mutant: the new entry is merged into the old one ({...prev[pimp], ...entry}).
SetEntry_Merge(prev, pimp, entry) ==
    [q \in DOMAIN prev \cup {pimp} |->
        IF q = pimp
        THEN IF pimp \in DOMAIN prev THEN entry @@ prev[pimp] ELSE entry
        ELSE prev[q]]

\* Mutant: the entry is put into a stale snapshot of the store, in which
\* every other archetype is as the run initialised it.
SetEntry_StaleSnapshot(prev, pimp, entry) ==
    [q \in DOMAIN prev \cup {pimp} |-> IF q = pimp THEN entry ELSE [status |-> "pending"]]

\* setGeneratedImages(prev => ({...prev, [pimp]: entry}))
SetEntry(prev, pimp, entry) ==
    [q \in DOMAIN prev \cup {pimp} |-> IF q = pimp THEN entry ELSE prev[q]]

PendingEntry == [status |-> "pending"]
DoneEntry(resultUrl) == [status |-> "done", url |-> resultUrl]
ErrorEntry(errorMessage) == [status |-> "error", error |-> errorMessage]

\* The entry a settled generatePimpImage call makes its caller write.
SettledEntry(outcome) ==
    IF outcome.ok THEN DoneEntry(outcome.url) ELSE ErrorEntry(outcome.message)

\* Mutant: processPimp without its catch block.
processPimp_NoCatch(prev, pimp, outcome) ==
    IF outcome.ok
    THEN [images |-> [q \in DOMAIN prev \cup {pimp} |->
                         IF q = pimp THEN [status |-> "done", url |-> outcome.url]
                         ELSE prev[q]],
          rejected |-> FALSE]
    ELSE [images |-> prev, rejected |-> TRUE]

\* processPimp after generatePimpImage settled: the try branch writes the
\* result, the catch branch writes the error; the promise of processPimp
\* itself never rejects.
processPimp(prev, pimp, outcome) ==
    [images |-> SetEntry(prev, pimp, SettledEntry(outcome)), rejected |-> FALSE]

WorkerOwner(r, w) == [run |-> r, worker |-> w]
RegenOwner(n) == [run |-> 0, worker |-> n]

\* Mutant: the last name is taken, the first is removed.
Shift_TakesLast(pimpQueue) == [pimp |-> pimpQueue[Len(pimpQueue)], rest |-> Tail(pimpQueue)]

\* pimpQueue.shift(): the name taken and the queue left.
Shift(pimpQueue) == [pimp |-> Head(pimpQueue), rest |-> Tail(pimpQueue)]

\* One worker's while loop from its top until it awaits a remote call, its
\* promise rejects, or the queue is empty.  acc is [run, images, calls].
RECURSIVE Worker(_, _)
Worker(acc, owner) ==
    IF Len(acc.run.pimpQueue) = 0
    THEN acc
    ELSE LET taken == Shift(acc.run.pimpQueue)
             pimp == taken.pimp
             run1 == [acc.run EXCEPT !.pimpQueue = taken.rest,
                                     !.dispatched[pimp] = @ + 1]
             g == generatePimpImage(acc.run.image, pimp)
         IN IF g.started
            THEN [acc EXCEPT !.run = run1,
                             !.calls = @ \cup {[owner |-> owner] @@ g.call}]
            ELSE LET pp == processPimp(acc.images, pimp, [ok |-> FALSE, message |-> g.message])
                 IN IF pp.rejected
                    THEN [acc EXCEPT !.run = [run1 EXCEPT !.rejected = TRUE],
                                     !.images = pp.images]
                    ELSE Worker([acc EXCEPT !.run = run1, !.images = pp.images], owner)

\* The workers are started one after the other; each runs until it blocks.
RECURSIVE SpawnWorkers(_, _, _)
SpawnWorkers(acc, r, w) ==
    IF w > concurrencyLimit THEN acc
    ELSE SpawnWorkers(Worker(acc, WorkerOwner(r, w)), r, w + 1)

\* Promise.all(workers) has resolved: every worker ended, none rejected.
AllWorkersDone(run, r, cs) ==
    /\ ~run.rejected
    /\ \A c \in cs : c.owner.run # r

\* <input type="file" onChange={handleImageUpload}>, shown while idle.
handleImageUpload(file) ==
    /\ UNCHANGED composeVars
    /\ alertMsg = <<>>
    /\ justSettled' = Null
    /\ appState = "idle"
    /\ nUploads < MaxUploads                                \* bound of the model
    /\ nUploads' = nUploads + 1
    /\ readers' = [i \in DOMAIN readers \cup {nUploads + 1} |->
                      IF i = nUploads + 1 THEN file ELSE readers[i]]
    /\ UNCHANGED <<uploadedImage, generatedImages, isLoading, isDownloading, appState,
                   runs, calls, lookbook, alertMsg, nRegenerations>>

\* reader.onloadend
onloadend(i) ==
    /\ UNCHANGED composeVars
    /\ alertMsg = <<>>
    /\ justSettled' = Null
    /\ i \in DOMAIN readers
    /\ uploadedImage' = ReadAsDataURL(readers[i])
    /\ appState' = "image-uploaded"
    /\ generatedImages' = EmptyImages
    /\ readers' = [j \in DOMAIN readers \ {i} |-> readers[j]]
    /\ UNCHANGED <<isLoading, isDownloading, runs, calls, lookbook, alertMsg,
                   nUploads, nRegenerations>>

\* The "Hit the Streets" button, shown in 'image-uploaded' with an image.
handleGenerateClick ==
    /\ UNCHANGED composeVars
    /\ alertMsg = <<>>
    /\ justSettled' = Null
    /\ appState = "image-uploaded"
    /\ uploadedImage # Null
    /\ Cardinality(calls) + concurrencyLimit <= MaxCalls    \* bound of the model
    /\ LET r == Len(runs) + 1
           initialImages == [p \in Archetypes |-> PendingEntry]
           run0 == [image |-> uploadedImage,
                    pimpQueue |-> PIMP_ARCHETYPES,
                    dispatched |-> [p \in Archetypes |-> 0],
                    rejected |-> FALSE,
                    returned |-> FALSE]
           acc == SpawnWorkers([run |-> run0, images |-> initialImages, calls |-> calls],
                               r, 1)
           done == AllWorkersDone(acc.run, r, acc.calls)
       IN /\ runs' = Append(runs, [acc.run EXCEPT !.returned = done])
          /\ generatedImages' = acc.images
          /\ calls' = acc.calls
          /\ isLoading' = ~done
          /\ appState' = IF done THEN "results-shown" ELSE "generating"
    /\ UNCHANGED <<uploadedImage, isDownloading, readers, lookbook, alertMsg,
                   nUploads, nRegenerations>>

\* What is remembered of a settled generatePimpImage call.
Settled(call, response, outcome) ==
    [pimp |-> call.pimp, owner |-> call.owner, image |-> call.image,
     attempts |-> call.attempt, errors |-> call.errors, delays |-> call.delays,
     response |-> response, written |-> SettledEntry(outcome)]

\* The calls that stay outstanding when the call of owner settles.
Outstanding(cs, owner) == {c \in cs : c.owner # owner}

\* The promise of the generatePimpImage call settles with outcome: its
\* caller (a worker's processPimp or handleRegeneratePimp) writes the entry,
\* and a worker goes on with its loop.
Settle(call, response, outcome) ==
    /\ justSettled' = Settled(call, response, outcome)
    /\ IF call.owner.run = 0
       THEN /\ generatedImages' = SetEntry(generatedImages, call.pimp, SettledEntry(outcome))
            /\ calls' = Outstanding(calls, call.owner)
            /\ UNCHANGED <<runs, isLoading, appState>>
       ELSE LET r == call.owner.run
                pp == processPimp(generatedImages, call.pimp, outcome)
                acc0 == [run |-> runs[r], images |-> pp.images,
                         calls |-> Outstanding(calls, call.owner)]
                acc == IF pp.rejected
                       THEN [acc0 EXCEPT !.run.rejected = TRUE]
                       ELSE Worker(acc0, call.owner)
                done == ~runs[r].returned /\ AllWorkersDone(acc.run, r, acc.calls)
            IN /\ runs' = [runs EXCEPT ![r] = [acc.run EXCEPT !.returned = @ \/ done]]
               /\ generatedImages' = acc.images
               /\ calls' = acc.calls
               /\ IF done
                  THEN isLoading' = FALSE /\ appState' = "results-shown"
                  ELSE UNCHANGED <<isLoading, appState>>
    /\ UNCHANGED <<uploadedImage, isDownloading, readers, lookbook, alertMsg,
                   nUploads, nRegenerations>>

\* ai.models.generateContent rejects with an error.
generateContentRejects(call, errorMessage) ==
    /\ UNCHANGED composeVars
    /\ alertMsg = <<>>
    /\ call \in calls
    /\ call.awaiting = "generateContent"
    /\ LET d == callGeminiWithRetryCatch(call, errorMessage)
       IN IF d.rethrow
          THEN Settle(d.call, Null, generatePimpImageCatch(d.error))
          ELSE /\ calls' = (calls \ {call}) \cup {d.call}
               /\ justSettled' = Null
               /\ UNCHANGED <<uploadedImage, generatedImages, isLoading, isDownloading,
                              appState, readers, runs, lookbook, alertMsg, nUploads, nRegenerations>>

\* ai.models.generateContent resolves with a response.
generateContentResolves(call, response) ==
    /\ UNCHANGED composeVars
    /\ alertMsg = <<>>
    /\ call \in calls
    /\ call.awaiting = "generateContent"
    /\ Settle(call, response, generatePimpImageResolved(response))

\* The setTimeout of the backoff fires.
backoffElapsed(call) ==
    /\ UNCHANGED composeVars
    /\ alertMsg = <<>>
    /\ justSettled' = Null
    /\ call \in calls
    /\ call.awaiting = "setTimeout"
    /\ calls' = (calls \ {call}) \cup {callGeminiWithRetryContinue(call)}
    /\ UNCHANGED <<uploadedImage, generatedImages, isLoading, isDownloading,
                   appState, readers, runs, lookbook, alertMsg, nUploads, nRegenerations>>

\* onShake of a PolaroidCard; the cards are shown in 'generating' and
\* 'results-shown'.
handleRegeneratePimp(pimp) ==
    /\ UNCHANGED composeVars
    /\ alertMsg = <<>>
    /\ justSettled' = Null
    /\ appState \in {"generating", "results-shown"}
    /\ nRegenerations < MaxRegenerations                    \* bound of the model
    /\ Cardinality(calls) < MaxCalls                        \* bound of the model
    /\ nRegenerations' = nRegenerations + 1
    /\ IF uploadedImage = Null
       THEN UNCHANGED <<generatedImages, calls>>
       ELSE IF pimp \in DOMAIN generatedImages /\ generatedImages[pimp].status = "pending"
       THEN UNCHANGED <<generatedImages, calls>>
       ELSE LET reset == SetEntry(generatedImages, pimp, PendingEntry)
                g == generatePimpImage(uploadedImage, pimp)
            IN IF g.started
               THEN /\ generatedImages' = reset
                    /\ calls' = calls \cup {[owner |-> RegenOwner(nRegenerations + 1)] @@ g.call}
               ELSE /\ generatedImages' = SetEntry(reset, pimp, ErrorEntry(g.message))
                    /\ UNCHANGED calls
    /\ UNCHANGED <<uploadedImage, isLoading, isDownloading, appState, readers, runs,
                   lookbook, alertMsg, nUploads>>

\* "Go Straight" (in 'image-uploaded') and "Start Over" (in 'results-shown').
handleReset ==
    /\ UNCHANGED composeVars
    /\ alertMsg = <<>>
    /\ justSettled' = Null
    /\ \/ appState = "image-uploaded" /\ uploadedImage # Null
       \/ appState = "results-shown"
    /\ uploadedImage' = Null
    /\ generatedImages' = EmptyImages
    /\ appState' = "idle"
    /\ UNCHANGED <<isLoading, isDownloading, readers, runs, calls, lookbook, alertMsg,
                   nUploads, nRegenerations>>

\* The entries of the store that are done and have a url: name -> url.
DoneImageData(images) ==
    [p \in {q \in DOMAIN images :
               images[q].status = "done" /\ "url" \in DOMAIN images[q]} |->
        images[p].url]

\* Mutant: only an empty selection is refused.
LookbookRefused_OnlyEmpty(imageData) == Cardinality(DOMAIN imageData) = 0

\* Whether handleDownloadLookbook refuses to build the lookbook.
LookbookRefused(imageData) == Cardinality(DOMAIN imageData) < Len(PIMP_ARCHETYPES)

PleaseWait ==
    <<"Please wait for all images to finish generating before downloading the lookbook.">>
SorryError ==
    <<"Sorry, there was an error creating your lookbook. Please try again.">>

\* "Download Lookbook", shown in 'results-shown', disabled while downloading.
handleDownloadLookbook ==
    /\ UNCHANGED composeVars
    /\ alertMsg = <<>>
    /\ justSettled' = Null
    /\ appState = "results-shown"
    /\ ~isDownloading
    /\ LET imageData == DoneImageData(generatedImages)
       IN IF LookbookRefused(imageData)
          THEN /\ alertMsg' = PleaseWait
               /\ isDownloading' = FALSE
               /\ UNCHANGED lookbook
          ELSE /\ lookbook' = [imageData |-> imageData]
               /\ isDownloading' = TRUE
               /\ UNCHANGED alertMsg
    /\ UNCHANGED <<uploadedImage, generatedImages, isLoading, appState, readers, runs,
                   calls, nUploads, nRegenerations>>

\* createLookbookPage settles: with the page (every image loaded), or with
\* the error of an image that failed to load.
createLookbookPageSettles(ok) ==
    /\ UNCHANGED composeVars
    /\ alertMsg = <<>>
    /\ justSettled' = Null
    /\ lookbook # Null
    /\ lookbook' = Null
    /\ isDownloading' = FALSE
    /\ alertMsg' = IF ok THEN alertMsg ELSE SorryError
    /\ UNCHANGED <<uploadedImage, generatedImages, isLoading, appState, readers, runs,
                   calls, nUploads, nRegenerations>>

\* The user closes the alert() dialog; the event loop is blocked until then.
dismissAlert ==
    /\ UNCHANGED composeVars
    /\ alertMsg # <<>>
    /\ alertMsg' = <<>>
    /\ justSettled' = Null
    /\ UNCHANGED <<uploadedImage, generatedImages, isLoading, isDownloading, appState,
                   readers, runs, calls, lookbook, nUploads, nRegenerations>>

\* ------------------------------------------------- createLookbookPage
\* Lengths on the canvas are counted in 1/SubPixel of a pixel, so that
\* thirds of a cell and halves and quarters of a card are whole numbers.
SubPixel == 24

Px(n) == n * SubPixel

grid == [cols |-> 2, rows |-> 3, padding |-> 100]

contentHeight == canvasHeight - contentTopMargin
cellWidth == Px(canvasWidth - grid.padding * (grid.cols + 1)) \div grid.cols
cellHeight == Px(contentHeight - grid.padding * (grid.rows + 1)) \div grid.rows

photoWidth == (cellWidth * 9) \div 10
photoHeight == (photoWidth * 125) \div 100

\* An imageData object is the sequence of its entries in key order.
ObjectKeys(imageData) == [i \in 1..Len(imageData) |-> imageData[i].figure]
ObjectValues(imageData) == [i \in 1..Len(imageData) |-> imageData[i].url]

\* The size in pixels of the picture that the data of src decode to: upright,
\* lying, square, a sliver either way, and one nearly of the proportions of
\* the image container.  The sizes are small to keep the products of the
\* exact quotients below 2^31.
NaturalSize(src) ==
    CASE src.data = "Luden-Larry" -> [width |-> 48, height |-> 64]
      [] src.data = "Gold-Zahn Gunther" -> [width |-> 64, height |-> 48]
      [] src.data = "Disco Dieter" -> [width |-> 1, height |-> 400]
      [] src.data = "Porsche-Paul" -> [width |-> 400, height |-> 1]
      [] src.data = "Reeperbahn-Rudi" -> [width |-> 56, height |-> 64]
      [] OTHER -> [width |-> 64, height |-> 64]

\* loadImage(src): the image element, or Null when onerror fires.
loadImage(src) ==
    IF src.data = "truncated"
    THEN Null
    ELSE [src |-> src,
          naturalWidth |-> NaturalSize(src).width,
          naturalHeight |-> NaturalSize(src).height]

\* The values Math.random() returns are counted in thousandths; the angle
\* (Math.random() - 0.5) * 0.15 is counted in millionths of a radian.
PhotoRotation(rnd) == (rnd - 500) * 150

\* Mutant: the index is split by the number of rows.
PhotoCell_ByRows(index) == [row |-> index \div grid.rows, col |-> index % grid.rows]

\* The grid cell of the photo with (0-based) index.
PhotoCell(index) == [row |-> index \div grid.cols, col |-> index % grid.cols]

inset == 35

\* Mutant: the picture is stretched over the whole image container.
drawImage_Stretched(img) ==
    LET imageContainerWidth == photoWidth - Px(inset) * 2
        imageContainerHeight == photoHeight - Px(inset) * 2 - Px(100)
    IN [scale |-> 2,
        x |-> -imageContainerWidth,
        y |-> Px(inset) * 2 - photoHeight,
        width |-> 2 * imageContainerWidth,
        height |-> 2 * imageContainerHeight]

\* The rectangle ctx.drawImage(img, imgX, imgY, drawWidth, drawHeight) fills,
\* in the coordinates of the card (origin at its centre).  drawWidth and
\* drawHeight are quotients by naturalWidth or naturalHeight and imgX and
\* imgY halves of them, so the four numbers are counted in 1/scale of the
\* unit of length, scale being twice that divisor; the quotients are exact.
drawImage(img) ==
    LET imageContainerWidth == photoWidth - Px(inset) * 2
        imageContainerHeight == photoHeight - Px(inset) * 2 - Px(100)
        \* drawHeight = drawWidth / aspectRatio > imageContainerHeight
        tooHigh == imageContainerWidth * img.naturalHeight
                       > imageContainerHeight * img.naturalWidth
        divisor == IF tooHigh THEN img.naturalHeight ELSE img.naturalWidth
        drawWidth == IF tooHigh THEN imageContainerHeight * img.naturalWidth
                                ELSE imageContainerWidth * img.naturalWidth
        drawHeight == IF tooHigh THEN imageContainerHeight * img.naturalHeight
                                 ELSE imageContainerWidth * img.naturalHeight
    IN [scale |-> 2 * divisor,
        x |-> -drawWidth,
        y |-> (Px(inset) * 2 - photoHeight) * divisor
              + (imageContainerHeight * divisor - drawHeight),
        width |-> 2 * drawWidth,
        height |-> 2 * drawHeight]

\* Mutant: the card is scattered by the random value and signed with it.
drawPhoto_Scattered(figure, img, index, rnd) ==
    LET row == index \div grid.cols
        col == index % grid.cols
    IN [index |-> index,
        row |-> row,
        col |-> col,
        x |-> Px(grid.padding) * (col + 1) + cellWidth * col
              + (cellWidth - photoWidth) \div 2 + rnd,
        y |-> Px(contentTopMargin) + Px(grid.padding) * (row + 1) + cellHeight * row,
        width |-> photoWidth,
        height |-> photoHeight,
        rotation |-> (rnd - 500) * 150,
        img |-> img,
        drawImage |-> drawImage(img),
        fillText |-> <<[text |-> figure, x |-> 0, y |-> photoHeight \div 2 - Px(60)]>>]

\* The body of imagesWithFigures.forEach: what is drawn for one photo.  x and
\* y are the top left corner of the card on the canvas before the rotation
\* about its centre; fillText lists the text drawn inside the card.
drawPhoto(figure, img, index, rnd) ==
    LET cell == PhotoCell(index)
        row == cell.row
        col == cell.col
        x == Px(grid.padding) * (col + 1) + cellWidth * col + (cellWidth - photoWidth) \div 2
        y == Px(contentTopMargin) + Px(grid.padding) * (row + 1) + cellHeight * row
        captionY == photoHeight \div 2 - Px(60)
    IN [index |-> index,
        row |-> row,
        col |-> col,
        x |-> x,
        y |-> y,
        width |-> photoWidth,
        height |-> photoHeight,
        rotation |-> PhotoRotation(rnd),
        img |-> img,
        drawImage |-> drawImage(img),
        fillText |-> <<[text |-> figure, x |-> 0, y |-> captionY]>>]

\* createLookbookPage(imageData) with the values random.next that
\* Math.random() returns in the forEach and the texture random.texture its
\* 150000 specks make: the page, or the rejection of the first image that
\* does not load.
createLookbookPage(imageData, random) ==
    LET figures == ObjectKeys(imageData)
        urls == ObjectValues(imageData)
        loadedImages == [i \in 1..Len(urls) |-> loadImage(urls[i])]
        failed == {i \in 1..Len(urls) : loadedImages[i] = Null}
    IN IF failed # {}
       THEN [ok |-> FALSE,
             message |-> <<"Failed to load image:",
                           urls[CHOOSE i \in failed : \A j \in failed : i <= j]>>]
       ELSE [ok |-> TRUE,
             mimeType |-> "image/jpeg",
             width |-> canvasWidth,
             height |-> canvasHeight,
             texture |-> random.texture,
             title |-> <<[text |-> "HAMBURG", x |-> Px(canvasWidth) \div 2, y |-> Px(180)],
                         [text |-> "'84", x |-> Px(canvasWidth) \div 2, y |-> Px(400)]>>,
             photos |-> [i \in 1..Len(figures) |->
                            drawPhoto(figures[i], loadedImages[i], i - 1, random.next[i])]]

\* A caller awaits createLookbookPage(pageInput) and keeps what it gets.
createLookbookPageCall(random) ==
    /\ Len(pageInput) > 0
    /\ Cardinality(pages) < MaxPages                        \* bound of the model
    /\ pages' = pages \cup {createLookbookPage(pageInput, random)}
    /\ UNCHANGED <<uploadedImage, generatedImages, isLoading, isDownloading, appState,
                   readers, runs, calls, lookbook, alertMsg, justSettled,
                   nUploads, nRegenerations, pageInput>>

\* The whole app.  The remote service either fails with an internal error
\* or answers with an image.
AppFiles == {"mugshot1.png", "mugshot2.jpeg"}
AppErrors == {<<"INTERNAL">>}
AppResponses(call) == {resp \in RemoteResponses(call) : resp.inlineData # Null}

Next ==
    \/ \E file \in AppFiles : handleImageUpload(file)
    \/ \E i \in DOMAIN readers : onloadend(i)
    \/ handleGenerateClick
    \/ \E call \in calls : \E e \in AppErrors : generateContentRejects(call, e)
    \/ \E call \in calls : \E resp \in AppResponses(call) : generateContentResolves(call, resp)
    \/ \E call \in calls : backoffElapsed(call)
    \/ \E pimp \in Archetypes : handleRegeneratePimp(pimp)
    \/ handleReset
    \/ handleDownloadLookbook
    \/ \E ok \in BOOLEAN : createLookbookPageSettles(ok)
    \/ dismissAlert

Spec == Init /\ [][Next]_vars

\* One session of the app: a single file selection, then everything the user
\* and the remote service can do.
NextSession ==
    \/ \E file \in AppFiles : nUploads = 0 /\ handleImageUpload(file)
    \/ \E i \in DOMAIN readers : onloadend(i)
    \/ handleGenerateClick
    \/ \E call \in calls : \E e \in AppErrors : generateContentRejects(call, e)
    \/ \E call \in calls : \E resp \in AppResponses(call) : generateContentResolves(call, resp)
    \/ \E call \in calls : backoffElapsed(call)
    \/ \E pimp \in Archetypes : handleRegeneratePimp(pimp)
    \/ handleReset
    \/ handleDownloadLookbook
    \/ \E ok \in BOOLEAN : createLookbookPageSettles(ok)
    \/ dismissAlert

SpecSession == Init /\ [][NextSession]_vars

\* One generation run after one file selection, with every kind of file and
\* every kind of remote outcome.
NextRun ==
    \/ \E file \in Files : nUploads = 0 /\ handleImageUpload(file)
    \/ \E i \in DOMAIN readers : onloadend(i)
    \/ handleGenerateClick
    \/ \E call \in calls : \E e \in RemoteErrors : generateContentRejects(call, e)
    \/ \E call \in calls : \E resp \in RemoteResponses(call) : generateContentResolves(call, resp)
    \/ \E call \in calls : backoffElapsed(call)

SpecRun == Init /\ [][NextRun]_vars

\* One generation run after one file selection, with a remote service that
\* answers every request (an internal error, a permanent error, an image or
\* text only) and timers that fire: no generateContent promise and no
\* backoff timer of a worker stays pending for ever.
LiveErrors == {<<"INTERNAL">>, <<"PERMISSION_DENIED">>}

NextLive ==
    \/ \E file \in Files : nUploads = 0 /\ handleImageUpload(file)
    \/ \E i \in DOMAIN readers : onloadend(i)
    \/ handleGenerateClick
    \/ \E call \in calls : \E e \in LiveErrors : generateContentRejects(call, e)
    \/ \E call \in calls : \E resp \in RemoteResponses(call) : generateContentResolves(call, resp)
    \/ \E call \in calls : backoffElapsed(call)

RemoteReturns(owner) ==
    \E call \in calls :
        /\ call.owner = owner
        /\ \/ \E e \in LiveErrors : generateContentRejects(call, e)
           \/ \E resp \in RemoteResponses(call) : generateContentResolves(call, resp)

TimerFires(owner) ==
    \E call \in calls : call.owner = owner /\ backoffElapsed(call)

FairRun ==
    /\ Init
    /\ [][NextLive]_vars
    /\ \A w \in 1..concurrencyLimit :
          /\ WF_vars(RemoteReturns(WorkerOwner(1, w)))
          /\ WF_vars(TimerFires(WorkerOwner(1, w)))

\* One session in which handleRegeneratePimp(pimp: string) is given any name,
\* one without a prompt included, and any kind of file is selected.
ShakenNames == Archetypes \cup {"Reeperbahn-Rudi"}

NextShake ==
    \/ \E file \in Files : nUploads = 0 /\ handleImageUpload(file)
    \/ \E i \in DOMAIN readers : onloadend(i)
    \/ handleGenerateClick
    \/ \E call \in calls : \E e \in AppErrors : generateContentRejects(call, e)
    \/ \E call \in calls : \E resp \in AppResponses(call) : generateContentResolves(call, resp)
    \/ \E call \in calls : backoffElapsed(call)
    \/ \E pimp \in ShakenNames : handleRegeneratePimp(pimp)

SpecShake == Init /\ [][NextShake]_vars

\* createLookbookPage on its own: a mapping of up to MaxImages named images,
\* in every key order, at most one of them an image that does not load, and
\* three courses Math.random() can take.
FigureNames == Range(AllArchetypes) \cup {"Reeperbahn-Rudi"}

KeyOrders ==
    {s \in UNION {[1..k -> FigureNames] : k \in 1..MaxImages} :
        \A i, j \in 1..Len(s) : s[i] = s[j] => i = j}

ImageDataSets ==
    {[i \in 1..Len(s) |->
         [figure |-> s[i],
          url |-> [mimeType |-> "image/png",
                   data |-> IF i = b THEN "truncated" ELSE s[i]]]] :
        s \in KeyOrders, b \in 0..MaxImages}

RandomCourses ==
    {[texture |-> "specks-a", next |-> [i \in 1..MaxImages |-> 0]],
     [texture |-> "specks-b", next |-> [i \in 1..MaxImages |-> 500]],
     [texture |-> "specks-c", next |-> [i \in 1..MaxImages |-> (i * 333) % 1000]]}

InitCompose ==
    /\ uploadedImage = Null
    /\ generatedImages = EmptyImages
    /\ isLoading = FALSE
    /\ isDownloading = FALSE
    /\ appState = "idle"
    /\ readers = [i \in {} |-> ""]
    /\ runs = <<>>
    /\ calls = {}
    /\ lookbook = Null
    /\ alertMsg = <<>>
    /\ justSettled = Null
    /\ nUploads = 0
    /\ nRegenerations = 0
    /\ pageInput \in ImageDataSets
    /\ pages = {}

NextCompose == \E random \in RandomCourses : createLookbookPageCall(random)

SpecCompose == InitCompose /\ [][NextCompose]_vars

\* ================================================================= claims
\* The error messages the remote service marks as internal/server errors.
TransientErrors == {<<"got status: 500", "\"code\":500">>, <<"INTERNAL">>}

AllTransient(errors) == \A i \in 1..Len(errors) : errors[i] \in TransientErrors

Terminal(images, p) ==
    p \in DOMAIN images /\ images[p].status \in {"done", "error"}

InFlight(p) == \E c \in calls : c.pimp = p

AllDone(images) ==
    \A p \in Archetypes :
        p \in DOMAIN images /\ images[p].status = "done" /\ "url" \in DOMAIN images[p]

\* The messages a failed item can carry.
FailureMessages ==
    {<<"The AI model failed to generate an image. Details:">> \o e : e \in RemoteErrors}
    \cup {<<"The AI model failed to generate an image. Details:",
            "The AI model responded with text instead of an image:",
            "I can't create that image">>,
          <<"Invalid image data URL format. Expected 'data:image/...;base64,...'">>}

\* The pages createLookbookPage returned for pageInput.
Pages == {page \in pages : page.ok}

\* The left and top edge of the grid cell in a column and a row.
CellLeft(col) == Px(100) * (col + 1) + col * (Px(2480 - 300) \div 2)
CellTop(row) == Px(550) + Px(100) * (row + 1) + row * (Px(3508 - 550 - 400) \div 3)

\* Two unrotated card rectangles have no point in common.
Disjoint(a, b) ==
    \/ a.x + a.width <= b.x
    \/ b.x + b.width <= a.x
    \/ a.y + a.height <= b.y
    \/ b.y + b.height <= a.y

\* A page without what Math.random() decided: the texture and the angles.
WithoutRandom(page) ==
    [page EXCEPT !.texture = "",
                 !.photos = [i \in DOMAIN @ |-> [@[i] EXCEPT !.rotation = 0]]]

\* The request has an input error: no well-formed image data URL, or a name
\* without a prompt.
InputError(imageDataUrl, pimpName) ==
    \/ imageDataUrl.type # "image"
    \/ imageDataUrl.subtype \notin {"png", "jpeg", "webp"}
    \/ pimpName \notin {"Kiez-Konig", "Luden-Larry", "Gold-Zahn Gunther", "Disco Dieter",
                        "Porsche-Paul"}

InputErrorMessages ==
    {<<"Invalid image data URL format. Expected 'data:image/...;base64,...'">>}
    \cup {<<"No prompt found for archetype:", p>> : p \in ShakenNames}

\* C1: at the step in which a run completes (Promise.all resolved and the
\* app entered 'results-shown'), every archetype is done or error.
C1_RunCompletesAllTerminal ==
    [][\A r \in DOMAIN runs' :
          (runs'[r].returned /\ (r \in DOMAIN runs => ~runs[r].returned))
          => /\ appState' = "results-shown"
             /\ \A p \in Archetypes : Terminal(generatedImages', p)]_vars

\* C2: while a run is in progress, at most concurrencyLimit generatePimpImage
\* calls are outstanding, those of regenerations included.
C2_InFlightWithinLimit ==
    (\E r \in DOMAIN runs : ~runs[r].returned) => Cardinality(calls) <= concurrencyLimit

\* C3: a call whose attempts all failed with a transient error made exactly
\* 3 attempts, waited 1000 ms and 2000 ms and nothing after the third, and
\* left the item in error.
C3_TransientExhausted ==
    (/\ justSettled # Null
     /\ justSettled.response = Null
     /\ AllTransient(justSettled.errors))
    => /\ justSettled.attempts = 3
       /\ Len(justSettled.errors) = 3
       /\ justSettled.delays = <<1000, 2000>>
       /\ justSettled.written.status = "error"
       /\ generatedImages[justSettled.pimp] = justSettled.written

C3_Witness ==
    /\ justSettled # Null
    /\ justSettled.response = Null
    /\ AllTransient(justSettled.errors)
    /\ justSettled.attempts = 3
    /\ generatedImages[justSettled.pimp].status = "error"

\* C4: a call that failed once with a transient error and then got an image
\* made exactly 2 attempts, waited 1000 ms once, and left the item done with
\* the image of the second attempt.
C4_RetryThenSuccess ==
    (/\ justSettled # Null
     /\ Len(justSettled.errors) = 1
     /\ AllTransient(justSettled.errors)
     /\ justSettled.response # Null
     /\ justSettled.response.inlineData # Null)
    => /\ justSettled.attempts = 2
       /\ justSettled.delays = <<1000>>
       /\ justSettled.written =
             [status |-> "done",
              url |-> [mimeType |-> justSettled.response.inlineData.mimeType,
                       data |-> justSettled.response.inlineData.data]]
       /\ generatedImages[justSettled.pimp] = justSettled.written

C4_Witness ==
    /\ justSettled # Null
    /\ Len(justSettled.errors) = 1
    /\ AllTransient(justSettled.errors)
    /\ justSettled.response # Null
    /\ justSettled.response.inlineData # Null
    /\ generatedImages[justSettled.pimp].status = "done"

\* C5: a failure that is not a transient server error is the last thing its
\* call does: no call in progress has seen one, and a settled call that saw
\* one at attempt i made i attempts, waited only for the i - 1 failures
\* before it, and left the item in error.
C5_PermanentNotRetried ==
    /\ \A c \in calls : AllTransient(c.errors)
    /\ justSettled # Null =>
          \A i \in 1..Len(justSettled.errors) :
              justSettled.errors[i] \notin TransientErrors
              => /\ i = Len(justSettled.errors)
                 /\ justSettled.attempts = i
                 /\ Len(justSettled.delays) = i - 1
                 /\ justSettled.response = Null
                 /\ justSettled.written.status = "error"
                 /\ generatedImages[justSettled.pimp] = justSettled.written

C5_Witness ==
    /\ justSettled # Null
    /\ justSettled.attempts = 2
    /\ justSettled.errors = <<<<"INTERNAL">>, <<"PERMISSION_DENIED">>>>
    /\ justSettled.delays = <<1000>>
    /\ generatedImages[justSettled.pimp].status = "error"

\* C6: a regeneration request for an archetype that has a call outstanding
\* starts no call and leaves the store as it is.
C6_RegenerateInFlightIgnored ==
    [][\A p \in Archetypes :
          (InFlight(p) /\ handleRegeneratePimp(p))
          => UNCHANGED <<generatedImages, calls>>]_vars

\* C7: createLookbookPage is called only from a store in which every
\* archetype is done with a url, and with exactly those urls; a request
\* made from any other store is refused: no call, the store unchanged.
C7_LookbookOnlyWhenAllDone ==
    [][/\ (lookbook' # Null /\ lookbook' # lookbook)
          => /\ AllDone(generatedImages)
             /\ lookbook'.imageData = [p \in Archetypes |-> generatedImages[p].url]
       /\ (handleDownloadLookbook /\ ~AllDone(generatedImages))
          => /\ lookbook' = Null
             /\ ~isDownloading'
             /\ generatedImages' = generatedImages]_vars

C7_Witness ==
    /\ alertMsg = PleaseWait
    /\ lookbook = Null
    /\ appState = "results-shown"
    /\ \E p \in Archetypes : p \in DOMAIN generatedImages /\ generatedImages[p].status = "error"

\* C8: within a run no archetype is handed out twice, the archetypes that
\* were handed out are those no longer queued, no two outstanding calls of
\* the run are for the same archetype, and a run that has completed handed
\* out every archetype exactly once.
C8_DequeuedExactlyOnce ==
    \A r \in DOMAIN runs :
        /\ \A p \in Archetypes :
              /\ runs[r].dispatched[p] <= 1
              /\ (runs[r].dispatched[p] = 0) <=> (p \in Range(runs[r].pimpQueue))
              /\ runs[r].returned => runs[r].dispatched[p] = 1
        /\ \A c, d \in calls :
              (c.owner.run = r /\ d.owner.run = r /\ c.pimp = d.pimp) => c = d

C8_Witness ==
    \E r \in DOMAIN runs :
        /\ runs[r].returned
        /\ \A p \in Archetypes : runs[r].dispatched[p] = 1
        /\ justSettled # Null
        /\ justSettled.owner.run = r

\* C9: a failed item does not stop the run: no run's promise rejects, the
\* failure is written to the store as the item's error message, the worker
\* that handled it is at its next item unless the queue is empty, and a run
\* that has completed left every archetype done or error.
C9_FailureDoesNotAbortRun ==
    /\ \A r \in DOMAIN runs :
          /\ ~runs[r].rejected
          /\ runs[r].returned =>
                \A p \in Archetypes :
                    /\ runs[r].dispatched[p] = 1
                    /\ Terminal(generatedImages, p)
                    /\ generatedImages[p].status = "error"
                       => generatedImages[p].error \in FailureMessages
    /\ (justSettled # Null /\ justSettled.owner.run > 0 /\ justSettled.written.status = "error")
       => /\ generatedImages[justSettled.pimp] = justSettled.written
          /\ justSettled.written.error \in FailureMessages
          /\ \/ runs[justSettled.owner.run].pimpQueue = <<>>
             \/ \E c \in calls : c.owner = justSettled.owner

C9_Witness ==
    /\ runs # <<>>
    /\ runs[1].returned
    /\ \E p, q \in Archetypes :
          /\ generatedImages[p].status = "error"
          /\ generatedImages[q].status = "done"
          /\ PIMP_ARCHETYPES[1] = p

\* C10: every entry of the store has a url exactly when it is done and an
\* error message exactly when it is error; a pending entry has neither.
C10_ResultMatchesStatus ==
    \A p \in DOMAIN generatedImages :
        LET e == generatedImages[p]
        IN /\ e.status \in {"pending", "done", "error"}
           /\ ("url" \in DOMAIN e) <=> (e.status = "done")
           /\ ("error" \in DOMAIN e) <=> (e.status = "error")

C10_Witness ==
    /\ \E p \in DOMAIN generatedImages : generatedImages[p].status = "pending"
    /\ \E p \in DOMAIN generatedImages :
          generatedImages[p].status = "done" /\ "url" \in DOMAIN generatedImages[p]
    /\ \E p \in DOMAIN generatedImages :
          generatedImages[p].status = "error" /\ "error" \in DOMAIN generatedImages[p]

\* C11: a page made from K images, 1 <= K <= 6, has exactly K photos; the
\* i-th image in key order (counted from 0) is in row i div 2 and column
\* i mod 2 of the 2 x 3 grid, with the top left corner of its card in that
\* cell; no two photos are in the same cell; each photo has exactly one text,
\* the name of its image.
C11_OnePanelPerImage ==
    \A page \in Pages :
        (Len(pageInput) >= 1 /\ Len(pageInput) <= 6)
        => /\ Len(page.photos) = Len(pageInput)
           /\ \A i \in 1..Len(page.photos) :
                 LET photo == page.photos[i]
                 IN /\ photo.row = (i - 1) \div 2
                    /\ photo.col = (i - 1) % 2
                    /\ photo.row \in 0..2
                    /\ photo.col \in 0..1
                    /\ photo.x >= CellLeft(photo.col)
                    /\ photo.x < CellLeft(photo.col) + Px(2480 - 300) \div 2
                    /\ photo.y >= CellTop(photo.row)
                    /\ photo.y < CellTop(photo.row) + Px(3508 - 550 - 400) \div 3
                    /\ photo.img.src = pageInput[i].url
                    /\ Len(photo.fillText) = 1
                    /\ photo.fillText[1].text = pageInput[i].figure
           /\ \A i, j \in 1..Len(page.photos) :
                 (page.photos[i].row = page.photos[j].row
                  /\ page.photos[i].col = page.photos[j].col) => i = j

C11_Witness ==
    \E page \in Pages :
        /\ Len(pageInput) = 6
        /\ pageInput[1].figure = "Reeperbahn-Rudi"
        /\ pageInput[6].figure = "Kiez-Konig"
        /\ page.photos[6].fillText[1].text = "Kiez-Konig"
        /\ page.photos[6].row = 2
        /\ page.photos[6].col = 1

\* C12: on every page the unrotated cards of any two different photos have
\* no point in common.
C12_CardsDisjoint ==
    \A page \in Pages :
        \A i, j \in 1..Len(page.photos) :
            i # j => Disjoint(page.photos[i], page.photos[j])

\* C13: two pages made from the same images agree on everything but the
\* texture and the angles of the photos, and are 2480 x 3508.
C13_RandomOnlyTextureAndAngles ==
    \A a, b \in Pages :
        /\ a.width = 2480
        /\ a.height = 3508
        /\ Len(a.photos) = Len(b.photos)
        /\ \A i \in 1..Len(a.photos) :
              /\ a.photos[i].row = b.photos[i].row
              /\ a.photos[i].col = b.photos[i].col
              /\ a.photos[i].x = b.photos[i].x
              /\ a.photos[i].y = b.photos[i].y
              /\ a.photos[i].fillText = b.photos[i].fillText
        /\ WithoutRandom(a) = WithoutRandom(b)

C13_Witness ==
    \E a, b \in Pages :
        /\ Len(pageInput) = 5
        /\ a.texture # b.texture
        /\ \A i \in 1..Len(a.photos) : a.photos[i].rotation # b.photos[i].rotation

\* C14: no remote call is ever outstanding for a request with an input
\* error; a regeneration that is accepted for such a request starts no call
\* and leaves the item in error with the input error's message; a run
\* started with such an image starts no call, leaves every item in error
\* and is complete at once.
C14_InputErrorFailsFast ==
    [][/\ \A c \in calls' : ~InputError(c.image, c.pimp)
       /\ \A p \in ShakenNames :
             (/\ handleRegeneratePimp(p)
              /\ uploadedImage # Null
              /\ ~(p \in DOMAIN generatedImages /\ generatedImages[p].status = "pending")
              /\ InputError(uploadedImage, p))
             => /\ calls' = calls
                /\ generatedImages'[p].status = "error"
                /\ generatedImages'[p].error \in InputErrorMessages
       /\ (handleGenerateClick /\ InputError(uploadedImage, PIMP_ARCHETYPES[1]))
          => /\ calls' = calls
             /\ appState' = "results-shown"
             /\ \A p \in Archetypes :
                   /\ generatedImages'[p].status = "error"
                   /\ generatedImages'[p].error \in InputErrorMessages]_vars

C14_Witness ==
    /\ "Reeperbahn-Rudi" \in DOMAIN generatedImages
    /\ generatedImages["Reeperbahn-Rudi"] =
          [status |-> "error",
           error |-> <<"No prompt found for archetype:", "Reeperbahn-Rudi">>]
    /\ \A c \in calls : c.pimp # "Reeperbahn-Rudi"
    /\ calls # {}

\* C15: a call that got a response without an image part settles at that
\* attempt: the item is in error with a message that holds every fragment
\* of the response's text, the call waited only for the failures before the
\* response, and no call of its owner is outstanding for the item.
C15_TextResponseIsPermanentError ==
    (/\ justSettled # Null
     /\ justSettled.response # Null
     /\ justSettled.response.inlineData = Null)
    => /\ justSettled.written.status = "error"
       /\ \A i \in 1..Len(justSettled.response.text) :
             Includes(justSettled.written.error, justSettled.response.text[i])
       /\ generatedImages[justSettled.pimp] = justSettled.written
       /\ Len(justSettled.errors) = justSettled.attempts - 1
       /\ Len(justSettled.delays) = justSettled.attempts - 1
       /\ \A c \in calls :
             ~(c.owner = justSettled.owner /\ c.pimp = justSettled.pimp)

C15_Witness ==
    /\ justSettled # Null
    /\ justSettled.response # Null
    /\ justSettled.response.inlineData = Null
    /\ justSettled.response.text = <<"I can't create that image">>
    /\ justSettled.attempts = 2
    /\ generatedImages[justSettled.pimp].status = "error"
    /\ Includes(generatedImages[justSettled.pimp].error, "I can't create that image")

\* C16: no two outstanding generatePimpImage calls are for the same
\* archetype, whoever started them.
C16_OneCallPerName ==
    \A c, d \in calls : c.pimp = d.pimp => c = d

\* C17: a call that failed three times with a transient error leaves the
\* item in error with the message of the third failure (after the prefix
\* generatePimpImage puts before every failure), not the message of the
\* first or second failure and not the error that follows the retry loop.
C17_LastFailureSurfaced ==
    (/\ justSettled # Null
     /\ justSettled.response = Null
     /\ Len(justSettled.errors) = 3
     /\ AllTransient(justSettled.errors))
    => /\ justSettled.written =
             [status |-> "error",
              error |-> <<"The AI model failed to generate an image. Details:">>
                        \o justSettled.errors[3]]
       /\ generatedImages[justSettled.pimp] = justSettled.written
       /\ ~Includes(justSettled.written.error, "Gemini API call failed after all retries.")
       /\ \A i \in 1..2 :
             justSettled.errors[i] # justSettled.errors[3]
             => \E k \in 1..Len(justSettled.errors[i]) :
                   ~Includes(justSettled.written.error, justSettled.errors[i][k])

C17_Witness ==
    /\ justSettled # Null
    /\ justSettled.response = Null
    /\ justSettled.errors = <<<<"INTERNAL">>, <<"INTERNAL">>,
                              <<"got status: 500", "\"code\":500">>>>
    /\ generatedImages[justSettled.pimp].status = "error"
    /\ Includes(generatedImages[justSettled.pimp].error, "got status: 500")
    /\ ~Includes(generatedImages[justSettled.pimp].error, "INTERNAL")

\* C18: one execution of callGeminiWithRetry is at one place at a time, and
\* every call record that appears in a step is a first attempt, or the same
\* execution gone to sleep after its attempt k failed with a transient error
\* (for 1000 * 2^(k-1) ms), or the same execution at attempt k + 1 in the
\* step in which the timer of attempt k fired.
C18_AttemptsSequential ==
    [][/\ \A c, d \in calls' : (c.owner = d.owner /\ c.pimp = d.pimp) => c = d
       /\ \A n \in calls' \ calls :
             \/ /\ n.attempt = 1
                /\ n.awaiting = "generateContent"
                /\ n.errors = <<>>
                /\ n.delays = <<>>
                /\ \A c \in calls : ~(c.owner = n.owner /\ c.pimp = n.pimp)
             \/ \E c \in calls \ calls' :
                   /\ c.owner = n.owner
                   /\ c.pimp = n.pimp
                   /\ \/ /\ c.awaiting = "generateContent"
                         /\ n.awaiting = "setTimeout"
                         /\ n.attempt = c.attempt
                         /\ Len(n.errors) = c.attempt
                         /\ SubSeq(n.errors, 1, c.attempt - 1) = c.errors
                         /\ n.errors[c.attempt] \in TransientErrors
                         /\ n.delays = Append(c.delays, 1000 * Pow(2, c.attempt - 1))
                      \/ /\ c.awaiting = "setTimeout"
                         /\ backoffElapsed(c)
                         /\ n.awaiting = "generateContent"
                         /\ n.attempt = c.attempt + 1
                         /\ n.errors = c.errors
                         /\ n.delays = c.delays
                         /\ Len(n.delays) = c.attempt]_vars

C18_Witness ==
    \E c \in calls :
        /\ c.attempt = 3
        /\ c.awaiting = "generateContent"
        /\ Len(c.errors) = 2
        /\ c.delays = <<1000, 2000>>

\* C19: a regeneration accepted for an item that is done or error (and
\* without an input error) replaces the item's entry by a bare pending
\* entry, leaves every other entry as it is and starts exactly one call, for
\* that item and the current image;
\* while that call is outstanding only its settling changes the item's
\* entry; and its settling writes done with the url of the response, or
\* error, into the item's entry and nothing else.
C19_RegenerationResetsAndSettles ==
    [][/\ \A p \in Archetypes :
             (/\ handleRegeneratePimp(p)
              /\ uploadedImage # Null
              /\ Terminal(generatedImages, p)
              /\ ~InputError(uploadedImage, p))
             => /\ generatedImages' =
                      [q \in DOMAIN generatedImages |->
                          IF q = p THEN [status |-> "pending"] ELSE generatedImages[q]]
                /\ calls \subseteq calls'
                /\ Cardinality(calls' \ calls) = 1
                /\ \A n \in calls' \ calls :
                      /\ n.pimp = p
                      /\ n.image = uploadedImage
                      /\ n.attempt = 1
                      /\ n.awaiting = "generateContent"
       /\ \A c \in calls :
             (/\ c.owner.run = 0
              /\ c.pimp \in DOMAIN generatedImages
              /\ c.pimp \in DOMAIN generatedImages'
              /\ generatedImages'[c.pimp] # generatedImages[c.pimp])
             => /\ justSettled' # Null
                /\ justSettled'.owner = c.owner
       /\ (justSettled' # Null /\ justSettled'.owner.run = 0)
          => /\ justSettled'.written =
                   (IF justSettled'.response # Null /\ justSettled'.response.inlineData # Null
                    THEN [status |-> "done",
                          url |-> [mimeType |-> justSettled'.response.inlineData.mimeType,
                                   data |-> justSettled'.response.inlineData.data]]
                    ELSE [status |-> "error", error |-> justSettled'.written.error])
             /\ justSettled'.written.status \in {"done", "error"}
             /\ generatedImages' =
                   [q \in DOMAIN generatedImages \cup {justSettled'.pimp} |->
                       IF q = justSettled'.pimp THEN justSettled'.written
                       ELSE generatedImages[q]]]_vars

\* C20: when every request is answered and every timer fires, a run that
\* was started eventually has an empty queue, no worker at a call, every
\* archetype (each is dispatched by the run) done or error, its promise
\* resolved, and the app in 'results-shown' and no longer loading.
C20_RunEventuallyCompletes ==
    (runs # <<>>) ~> (/\ runs # <<>>
                      /\ runs[1].pimpQueue = <<>>
                      /\ \A c \in calls : c.owner.run # 1
                      /\ runs[1].returned
                      /\ \A p \in Archetypes : Terminal(generatedImages, p)
                      /\ ~isLoading
                      /\ appState = "results-shown")

C20_Witness ==
    /\ runs # <<>>
    /\ runs[1].returned
    /\ runs[1].pimpQueue = <<>>
    /\ calls = {}
    /\ appState = "results-shown"
    /\ justSettled # Null
    /\ justSettled.attempts = 3
    /\ \E p \in Archetypes : generatedImages[p].status = "done"

\* C21: the step in which a call of a worker or of a regeneration settles
\* writes the outcome into the entry of the call's archetype and leaves
\* every other entry as it was, so the outcomes written before it are kept;
\* a regeneration request changes no entry but that of its archetype.
C21_OneKeyPerMutation ==
    [][/\ justSettled' # Null
          => generatedImages' =
                [q \in DOMAIN generatedImages \cup {justSettled'.pimp} |->
                    IF q = justSettled'.pimp THEN justSettled'.written
                    ELSE generatedImages[q]]
       /\ \A p \in Archetypes :
             handleRegeneratePimp(p)
             => /\ DOMAIN generatedImages' \subseteq DOMAIN generatedImages \cup {p}
                /\ \A q \in DOMAIN generatedImages :
                      q # p => (q \in DOMAIN generatedImages'
                                /\ generatedImages'[q] = generatedImages[q])]_vars

\* Worker 2's item completed before worker 1's and both outcomes are there.
C21_Witness ==
    /\ justSettled # Null
    /\ justSettled.pimp = PIMP_ARCHETYPES[1]
    /\ justSettled.owner = [run |-> 1, worker |-> 1]
    /\ generatedImages[PIMP_ARCHETYPES[1]].status = "done"
    /\ generatedImages[PIMP_ARCHETYPES[2]].status = "done"
    /\ generatedImages[PIMP_ARCHETYPES[3]].status = "pending"
    /\ \E c \in calls : c.pimp = PIMP_ARCHETYPES[3] /\ c.owner = [run |-> 1, worker |-> 2]

\* C22: while a run has not completed, the names in the store are exactly
\* the archetypes the run was started with.
C22_NamesFixedDuringRun ==
    (\E r \in DOMAIN runs : ~runs[r].returned) => DOMAIN generatedImages = Archetypes

\* The image region of a card in the coordinates of the card: the card of
\* 981 by 1226.25 pixels less 35 pixels on every side and 100 more at the
\* bottom, in 1/24 of a pixel.
ImageRegion == [left |-> -10932, right |-> 10932, top |-> -13875, bottom |-> 11475]

\* C23: the rectangle a source image of positive width and height is drawn
\* into has the aspect ratio of the image, lies inside the image region of
\* the card, spans that region in at least one dimension and is centred in
\* it in both, so it never reaches into the space of the caption.
C23_ImageFitsRegion ==
    \A page \in Pages :
        \A i \in 1..Len(page.photos) :
            LET img == page.photos[i].img
                r == page.photos[i].drawImage
                left == ImageRegion.left * r.scale
                right == ImageRegion.right * r.scale
                top == ImageRegion.top * r.scale
                bottom == ImageRegion.bottom * r.scale
            IN (img.naturalWidth > 0 /\ img.naturalHeight > 0)
               => /\ r.scale > 0
                  /\ r.width > 0
                  /\ r.height > 0
                  /\ r.width * img.naturalHeight = r.height * img.naturalWidth
                  /\ left <= r.x
                  /\ r.x + r.width <= right
                  /\ top <= r.y
                  /\ r.y + r.height <= bottom
                  /\ (r.width = right - left \/ r.height = bottom - top)
                  /\ r.x - left = right - (r.x + r.width)
                  /\ r.y - top = bottom - (r.y + r.height)

\* One page holds a picture fitted by its width with room left above and
\* below, and one fitted by its height with room left at both sides.
C23_Witness ==
    \E page \in Pages :
        \E i, j \in 1..Len(page.photos) :
            LET a == page.photos[i].drawImage
                b == page.photos[j].drawImage
            IN /\ a.width = (ImageRegion.right - ImageRegion.left) * a.scale
               /\ a.height < (ImageRegion.bottom - ImageRegion.top) * a.scale
               /\ b.height = (ImageRegion.bottom - ImageRegion.top) * b.scale
               /\ b.width < (ImageRegion.right - ImageRegion.left) * b.scale

\* C24: every result in the store was generated from the source image that
\* is uploaded now, and the results a composite is made of were all
\* generated from one source image.
C24_ResultsFromCurrentImage ==
    /\ \A p \in DOMAIN generatedImages :
          generatedImages[p].status = "done"
          => /\ uploadedImage # Null
             /\ generatedImages[p].url.data.from = uploadedImage.data
    /\ lookbook # Null
       => \A p, q \in DOMAIN lookbook.imageData :
             lookbook.imageData[p].data.from = lookbook.imageData[q].data.from

\* C25: on every page the unrotated card of every photo and the baseline
\* of its caption lie within the canvas of 2480 x 3508 and below the 550
\* pixels kept for the title.
C25_CardsWithinCanvas ==
    \A page \in Pages :
        \A i \in 1..Len(page.photos) :
            LET photo == page.photos[i]
                baseline == photo.y + photo.height \div 2 + photo.fillText[1].y
            IN /\ photo.x >= 0
               /\ photo.x + photo.width <= Px(2480)
               /\ photo.y >= Px(550)
               /\ photo.y + photo.height <= Px(3508)
               /\ baseline >= Px(550)
               /\ baseline <= Px(3508)
====
